---- MODULE Spec2Model ----
(***************************************************************************)
(* Model of the cluster layer of the zim reader (src/src/cluster.rs):      *)
(* details-byte decoding, cluster construction, blob-offset table          *)
(* parsing, lazy decompression behind an RwLock and blob slicing.          *)
(***************************************************************************)
EXTENDS Integers, Sequences, FiniteSets, TLC

\* ------------------------------------------------------------------ bounds

\* number of threads sharing one cluster (clones of one Arc<RwLock<..>>)
MaxThreads == 2
\* total number of public calls (get_blob / decompress / compression) in a run
MaxCalls == 3
\* blob indices passed to get_blob range over 0..MaxBlobIdx
MaxBlobIdx == 2
\* cluster indices passed to Cluster::new range over 0..MaxClusterIdx
MaxClusterIdx == 2

\* ------------------------------------------------------- program constants

\* entry width of a normal blob-offset table (read_u32)
OffsetSize == 4
\* entry width of an extended blob-offset table (read_u64)
ExtendedOffsetSize == 8
\* the only major version that allows extended clusters
ExtendedVersion == 6

VARIABLES
    overflow_checks, \* build setting: arithmetic overflow panics (debug) or wraps (release)
    details,         \* a details byte handed to parse_details
    parsed,          \* result of parse_details on it
    input,           \* arguments of Cluster::new
    built,           \* result of Cluster::new
    cluster,         \* the InnerCluster behind the RwLock
    writer,          \* thread holding the write guard, or NoThread
    readers,         \* number of read guards held by each thread
    poisoned,        \* the RwLock's poison flag
    pc,              \* position of each thread inside its current call
    arg,             \* blob index of each thread's current get_blob call
    res,             \* result of each thread's last finished call
    live,            \* number of live Blobs (read guard + slice) each thread holds
    calls,           \* number of public calls started
    decoder_runs,    \* number of times a decoder was run on the cluster
    returned,        \* every <<idx, bytes>> a get_blob call has returned
    failed           \* some get_blob call has returned an Err

vars == <<overflow_checks, details, parsed, input, built, cluster, writer, readers,
          poisoned, pc, arg, res, live, calls, decoder_runs, returned, failed>>

\* ------------------------------------------------------------ result values

Ok(v) == [tag |-> "Ok", val |-> v]
Err(e) == [tag |-> "Err", err |-> e]
\* Error::UnknownCompression(raw)
UnknownCompression(raw) == [tag |-> "Err", err |-> "UnknownCompression", code |-> raw]
\* a Rust panic (index out of bounds, failed assert!, todo!(), overflow, unwrap)
Panic(why) == [tag |-> "Panic", why |-> why]
Pending == [tag |-> "Pending"]

None == [tag |-> "None"]
Some(v) == [tag |-> "Some", val |-> v]

\* ------------------------------------------------------------- byte helpers

RECURSIVE BitsMsbFirst(_, _)
\* the n low bits of v as a sequence, most significant first (BitReader order)
BitsMsbFirst(v, n) ==
    IF n = 0 THEN <<>> ELSE Append(BitsMsbFirst(v \div 2, n - 1), v % 2)

RECURSIVE BitsValue(_)
\* BitReader::read_u8(n): the bits read so far, folded most significant first
BitsValue(bits) ==
    IF bits = <<>> THEN 0
    ELSE 2 * BitsValue(SubSeq(bits, 1, Len(bits) - 1)) + bits[Len(bits)]

\* The model's integers are narrower than u64. Every offset of 2^30 or more
\* is represented by 2^30: the mapped data of the model is far shorter, so
\* such an offset acts as any larger one does (a read past the end of the
\* data, a range that leaves the buffer).
Saturated == 2 ^ 30

RECURSIVE LittleEndian(_)
\* byteorder::LittleEndian: value of a byte string, least significant byte first
LittleEndian(bytes) ==
    IF bytes = <<>> THEN 0
    ELSE LET high == LittleEndian(Tail(bytes))
         IN  IF high >= Saturated \div 256 THEN Saturated
             ELSE Head(bytes) + 256 * high

\* rust slice s[lo..hi] (0-based, half open); callers check the bounds
Slice(s, lo, hi) == SubSeq(s, lo + 1, hi)

\* ---------------------------------------------------------------- decoding

\* Compression::from(raw)
Compression_from(raw) ==
    CASE raw = 0 -> Ok("None")
      [] raw = 1 -> Ok("None")
      [] raw = 2 -> Ok("Zlib")
      [] raw = 3 -> Ok("Bzip2")
      [] raw = 4 -> Ok("Lzma2")
      [] raw = 5 -> Ok("Zstd")
      [] OTHER -> UnknownCompression(raw)

\* a flag read one bit too late (after a skip of four bits)
ExtendedBitShifted(bits) == bits[5]

\* the bit of the details byte that read_bool() returns after skip(3)
ExtendedBit(bits) == bits[4]

\* the bits of the details byte that read_u8(4) returns after the flag
CompressionBits(bits) == SubSeq(bits, 5, 8)

\* parse_details(details): (extended, compression) or the error of Compression::from
parse_details(d) ==
    LET bits == BitsMsbFirst(d, 8)
        extended == ExtendedBit(bits) = 1
        compression == Compression_from(BitsValue(CompressionBits(bits)))
    IN  IF compression.tag = "Ok"
        THEN Ok([extended |-> extended, compression |-> compression.val])
        ELSE compression

\* ---------------------------------------------------- blob-offset table

\* Cursor + read_u32/read_u64::<LittleEndian>: one entry at byte position pos,
\* or the UnexpectedEof io::Error that `?` converts to Error::Parsing
read_entry(data, pos, w) ==
    IF pos + w > Len(data) THEN Err("Parsing")
    ELSE Ok(LittleEndian(Slice(data, pos, pos + w)))

RECURSIVE read_entries(_, _, _, _, _)
\* the loop of parse_blob_list: n further entries pushed onto blob_list
read_entries(data, pos, n, w, blob_list) ==
    IF n = 0 THEN Ok(blob_list)
    ELSE LET e == read_entry(data, pos, w)
         IN  IF e.tag # "Ok" THEN e
             ELSE read_entries(data, pos + w, n - 1, w, Append(blob_list, e.val))

\* `count as usize - 1`: panics on underflow when overflow checks are compiled
\* in, wraps to usize::MAX otherwise. No mapped data holds usize::MAX entries,
\* so the wrapped loop is one that asks for more entries than data can hold.
loop_count(count, data) ==
    IF count > 0 THEN Ok(count - 1)
    ELSE IF overflow_checks THEN Panic("attempt to subtract with overflow")
    ELSE Ok(Len(data) + 1)

\* a parser that reads 4-byte entries whatever the extended flag says
entry_width_normal(extended) == OffsetSize

\* entry width selected by the extended flag
entry_width(extended) == IF extended THEN ExtendedOffsetSize ELSE OffsetSize

\* parse_blob_list(cur, extended)
parse_blob_list(data, extended) ==
    LET w == entry_width(extended)
        first == read_entry(data, 0, w)
    IN  IF first.tag # "Ok" THEN first
        ELSE LET count == first.val \div w
                 n == loop_count(count, data)
             IN  IF n.tag # "Ok" THEN n
                 ELSE read_entries(data, w, n.val, w, <<first.val>>)

\* ------------------------------------------------------- InnerCluster::new

\* the range computed from the cluster pointer list (lines 155-160);
\* idx is 0-based as in the code, sequences are 1-based
cluster_start(cluster_list, idx) == cluster_list[idx + 1]

cluster_end(cluster_list, idx, checksum_pos) ==
    IF idx < Len(cluster_list) - 1 THEN cluster_list[idx + 2] ELSE checksum_pos

\* a range that is cut to the mapped region instead of being refused
view_get_clamped(master_view, start, end) ==
    IF start > end THEN None
    ELSE Some(Slice(master_view, start,
                    IF end > Len(master_view) THEN Len(master_view) ELSE end))

\* master_view.get(start..end): None when the range is inverted or leaves the map
view_get(master_view, start, end) ==
    IF start > end \/ end > Len(master_view) THEN None
    ELSE Some(Slice(master_view, start, end))

\* a version test the wrong way round
extension_rejected_inverted(extended, version) ==
    extended /\ version = ExtendedVersion

\* `extended && version != 6`
extension_rejected(extended, version) == extended /\ version # ExtendedVersion

\* InnerCluster::new(master_view, cluster_list, idx, checksum_pos, version)
InnerCluster_new(master_view, cluster_list, idx, checksum_pos, version) ==
    IF idx >= Len(cluster_list) THEN Panic("index out of bounds")
    ELSE
    LET start == cluster_start(cluster_list, idx)
        end == cluster_end(cluster_list, idx, checksum_pos)
    IN  IF ~(end > start) THEN Panic("assertion failed: end > start")
        ELSE
        LET cluster_view == view_get(master_view, start, end)
        IN  IF cluster_view.tag = "None" THEN Err("OutOfBounds")
            ELSE IF cluster_view.val = <<>> THEN Err("OutOfBounds")
            ELSE
            LET view == cluster_view.val
                d == parse_details(view[1])
            IN  IF d.tag # "Ok" THEN d
                ELSE IF extension_rejected(d.val.extended, version)
                     THEN Err("InvalidClusterExtension")
                ELSE
                LET bl == IF d.val.compression = "None"
                          THEN parse_blob_list(Tail(view), d.val.extended)
                          ELSE Ok(<<>>)
                IN  IF bl.tag # "Ok" THEN bl
                    ELSE Ok([extended |-> d.val.extended,
                             compression |-> d.val.compression,
                             start |-> start,
                             end |-> end,
                             size |-> end - start,
                             view |-> view,
                             blob_list |-> IF d.val.compression = "None"
                                           THEN Some(bl.val) ELSE None,
                             decompressed |-> None])

\* ------------------------------------------------------------- the decoders

Compressed == {"Lzma2", "Bzip2", "Zlib", "Zstd"}

\* n filler bytes, each marked with its position so that slices differ
Filler(from, n) == [i \in 1..n |-> 100 + ((from + i - 1) % 100)]

RECURSIVE LEBytes(_, _)
\* w little-endian bytes of n
LEBytes(n, w) == IF w = 0 THEN <<>> ELSE <<n % 256>> \o LEBytes(n \div 256, w - 1)

RECURSIVE Table(_, _)
\* a blob-offset table as it lies in the file: its entries, w bytes each
Table(entries, w) ==
    IF entries = <<>> THEN <<>>
    ELSE LEBytes(Head(entries), w) \o Table(Tail(entries), w)

\* The stream decoders (XzDecoder::read_to_end, zstd::stream::decode_all) are
\* deterministic functions of the payload. They are modelled by a code book:
\* the first payload byte names the stream, the rest is ballast that only
\* sets the compressed size.
\*   1: two blobs, offsets 8 and 12, 16 bytes in all
\*   2: a corrupt stream, the decoder fails
\*   3: a table announcing two entries and holding one
\*   4: a table whose first offset is 0
\*   5: an extended table, offsets 16 and 20, 28 bytes in all
\*   6: one blob, offset 4, 12 bytes in all
decode_stream(payload) ==
    CASE payload = <<>> -> Err("Parsing")
      [] payload # <<>> /\ payload[1] = 1 -> Ok(Table(<<8, 12>>, 4) \o Filler(8, 8))
      [] payload # <<>> /\ payload[1] = 3 -> Ok(Table(<<8>>, 4))
      [] payload # <<>> /\ payload[1] = 4 -> Ok(Table(<<0, 12>>, 4) \o Filler(8, 8))
      [] payload # <<>> /\ payload[1] = 5 -> Ok(Table(<<16, 20>>, 8) \o Filler(16, 12))
      [] payload # <<>> /\ payload[1] = 6 -> Ok(Table(<<4>>, 4) \o Filler(4, 8))
      [] OTHER -> Err("Parsing")

\* ------------------------------------------------- InnerCluster's methods

\* a readiness test that looks at the buffer and forgets the table
needs_decompression_buffer_only(c) ==
    IF c.compression \in Compressed THEN c.decompressed.tag = "None" ELSE FALSE

\* a readiness test that sends every call on a compressed cluster to the
\* write path
needs_decompression_always(c) == c.compression \in Compressed

\* a readiness test that forgets to look at the scheme
needs_decompression_any_scheme(c) ==
    c.decompressed.tag = "None" \/ c.blob_list.tag = "None"

\* InnerCluster::needs_decompression
needs_decompression(c) ==
    IF c.compression \in Compressed
    THEN c.decompressed.tag = "None" \/ c.blob_list.tag = "None"
    ELSE FALSE

\* a decompress that forgets to look whether the buffer is already there
should_decode_always(c) == TRUE

\* `if self.decompressed.is_none()`
should_decode(c) == c.decompressed.tag = "None"

\* the first half of InnerCluster::decompress: the decoder's outcome, or
\* Ok(None) when no decoder is run
decode_step(c) ==
    IF ~should_decode(c) THEN Ok(None)
    ELSE CASE c.compression \in {"Lzma2", "Zstd"} ->
                  LET d == decode_stream(Tail(c.view))
                  IN  IF d.tag = "Ok" THEN Ok(Some(d.val)) ELSE d
           [] c.compression = "Bzip2" -> Panic("not yet implemented: bzip2")
           [] c.compression = "Zlib" -> Panic("not yet implemented: zlib")
           [] OTHER -> Ok(None)

\* whether decode_step runs a stream decoder (the work the claims count)
runs_decoder(c) == should_decode(c) /\ c.compression \in {"Lzma2", "Zstd"}

\* a decompress that parses the table on every call and extends the stored one
blob_list_step_extending(c) ==
    IF c.compression \in Compressed
    THEN LET bl == parse_blob_list(c.decompressed.val, c.extended)
         IN  IF bl.tag # "Ok" THEN bl
             ELSE IF c.blob_list.tag = "None" THEN Ok(Some(bl.val))
             ELSE Ok(Some(c.blob_list.val \o bl.val))
    ELSE Ok(c.blob_list)

\* a decompress that stores the buffer and leaves the table for later
blob_list_step_skipped(c) == Ok(c.blob_list)

\* the second half of InnerCluster::decompress: the table the cluster holds
\* afterwards, c being the cluster with the decoder's output stored
blob_list_step(c) ==
    IF c.blob_list.tag = "None" /\ c.compression \in Compressed
    THEN LET bl == parse_blob_list(c.decompressed.val, c.extended)
         IN  IF bl.tag = "Ok" THEN Ok(Some(bl.val)) ELSE bl
    ELSE Ok(c.blob_list)

\* InnerCluster::decompress: [out: its result, cluster: the cluster afterwards]
InnerCluster_decompress(c) ==
    LET d == decode_step(c)
    IN  IF d.tag # "Ok" THEN [out |-> d, cluster |-> c]
        ELSE
        LET c1 == IF d.val.tag = "Some" THEN [c EXCEPT !.decompressed = d.val] ELSE c
            bl == blob_list_step(c1)
        IN  IF bl.tag # "Ok" THEN [out |-> bl, cluster |-> c1]
            ELSE [out |-> Ok(<<>>), cluster |-> [c1 EXCEPT !.blob_list = bl.val]]

\* an end taken from the entry of the blob itself instead of the next one
blob_end_same_entry(list, n, size) == IF Len(list) > n THEN list[n] ELSE size

\* `if list.len() > n { list[n] } else { self.size }`, n = idx + 1
blob_end(list, n, size) == IF Len(list) > n THEN list[n + 1] ELSE size

\* a raw range that forgets the details byte
raw_range_unshifted(start, end) == <<start, end>>

\* the range of self.view that holds data bytes start..end
raw_range(start, end) == <<1 + start, 1 + end>>

\* s[lo..hi], which panics when the range is inverted or leaves s
slice_index(s, lo, hi) ==
    IF lo > hi THEN Panic("slice index starts after its end")
    ELSE IF hi > Len(s) THEN Panic("range end index out of range")
    ELSE Ok(Slice(s, lo, hi))

\* InnerCluster::get_blob(idx)
InnerCluster_get_blob(c, idx) ==
    IF c.blob_list.tag = "None" THEN Err("MissingBlobList")
    ELSE
    LET list == c.blob_list.val
    IN  IF idx >= Len(list) THEN Panic("index out of bounds")
        ELSE
        LET start == list[idx + 1]
            end == blob_end(list, idx + 1, c.size)
        IN  IF c.compression \in Compressed
            THEN IF c.decompressed.tag = "None"
                 THEN Panic("called Option::unwrap() on a None value")
                 ELSE slice_index(c.decompressed.val, start, end)
            ELSE slice_index(c.view, raw_range(start, end)[1], raw_range(start, end)[2])

\* ------------------------------------------------------------ the archives

\* s followed by filler up to n bytes
PadTo(s, n) == s \o Filler(Len(s), n - Len(s))

\* an archive holding the given cluster images one after another: the mapped
\* file, its cluster pointer list and its checksum position
Archive(images) ==
    LET header == Filler(0, 3)
        first == images[1]
        second == IF Len(images) > 1 THEN images[2] ELSE <<>>
        body == header \o first \o second
    IN  [master_view |-> body \o Filler(0, 2),
         cluster_list |-> IF Len(images) > 1
                          THEN <<Len(header), Len(header) + Len(first)>>
                          ELSE <<Len(header)>>,
         checksum_pos |-> Len(body)]

\* raw cluster images: the details byte, then the table and the blobs
\* (scheme None) or a compressed payload
ClusterImages ==
    { PadTo(<<0>> \o Table(<<8, 20, 35>>, 4), 43),
      PadTo(<<0>> \o Table(<<12, 20, 35>>, 4), 43),
      PadTo(<<16>> \o Table(<<16, 24>>, 8), 30),
      PadTo(<<4, 1>>, 14),
      PadTo(<<5, 1>>, 21),
      PadTo(<<4, 2>>, 6),
      PadTo(<<5, 3>>, 6),
      PadTo(<<4, 4>>, 6),
      PadTo(<<20, 5>>, 24),
      PadTo(<<5, 6>>, 8),
      PadTo(<<3, 1>>, 6),
      PadTo(<<2, 1>>, 6) }

\* ------------------------------------------------------ threads and the lock

Threads == 1..MaxThreads
NoThread == 0

NoArg == [op |-> "none", idx |-> 0]
\* a call that has not finished has no result yet
NoResult == [op |-> "none", idx |-> 0, out |-> Pending]

\* values of the variables a specification does not use
NoInput == [master_view |-> <<>>, cluster_list |-> <<>>, idx |-> 0,
            checksum_pos |-> 0, version |-> 0]
NoCluster == [extended |-> FALSE, compression |-> "None", start |-> 0, end |-> 0,
              size |-> 0, view |-> <<>>, blob_list |-> None, decompressed |-> None]

ThreadsIdle ==
    /\ writer = NoThread
    /\ readers = [t \in Threads |-> 0]
    /\ poisoned = FALSE
    /\ pc = [t \in Threads |-> "idle"]
    /\ arg = [t \in Threads |-> NoArg]
    /\ res = [t \in Threads |-> NoResult]
    /\ live = [t \in Threads |-> 0]
    /\ calls = 0
    /\ decoder_runs = 0
    /\ returned = {}
    /\ failed = FALSE

\* Cluster::new has succeeded on a one-cluster archive (major version 6) and
\* the cluster is shared by the threads
Init ==
    \E img \in ClusterImages, oc \in BOOLEAN :
        LET a == Archive(<<img>>)
            in == [master_view |-> a.master_view, cluster_list |-> a.cluster_list,
                   idx |-> 0, checksum_pos |-> a.checksum_pos,
                   version |-> ExtendedVersion]
        IN  /\ overflow_checks = oc
            /\ details = 0
            /\ parsed = Pending
            /\ input = in
            /\ built = InnerCluster_new(in.master_view, in.cluster_list, in.idx,
                                        in.checksum_pos, in.version)
            /\ built.tag = "Ok"
            /\ cluster = built.val
            /\ ThreadsIdle

no_readers == \A t \in Threads : readers[t] = 0

Finish(t, call, out) ==
    /\ pc' = [pc EXCEPT ![t] = "idle"]
    /\ res' = [res EXCEPT ![t] = [op |-> call.op, idx |-> call.idx, out |-> out]]
    /\ failed' = (failed \/ (call.op = "get_blob" /\ out.tag = "Err"))

\* a thread calls Cluster::get_blob(idx)
CallGetBlob(t, idx) ==
    /\ pc[t] = "idle" /\ live[t] = 0 /\ calls < MaxCalls
    /\ calls' = calls + 1
    /\ pc' = [pc EXCEPT ![t] = "check"]
    /\ arg' = [arg EXCEPT ![t] = [op |-> "get_blob", idx |-> idx]]
    /\ res' = [res EXCEPT ![t] = NoResult]
    /\ UNCHANGED <<overflow_checks, details, parsed, input, built, cluster, writer,
                   readers, poisoned, live, decoder_runs, returned, failed>>

\* `let lock = self.0.read().unwrap();`
AcquireCheck(t) ==
    /\ pc[t] = "check" /\ writer = NoThread
    /\ IF poisoned
       THEN /\ Finish(t, arg[t], Panic("PoisonError"))
            /\ UNCHANGED readers
       ELSE /\ readers' = [readers EXCEPT ![t] = @ + 1]
            /\ pc' = [pc EXCEPT ![t] = "checking"]
            /\ UNCHANGED <<res, failed>>
    /\ UNCHANGED <<overflow_checks, details, parsed, input, built, cluster, writer,
                   poisoned, arg, live, calls, decoder_runs, returned>>

\* a readiness check that goes on to the write path without drop(lock)
CheckReady_keeps_guard(t) ==
    /\ pc[t] = "checking"
    /\ readers' = [readers EXCEPT ![t] =
                      IF needs_decompression(cluster) THEN @ ELSE @ - 1]
    /\ pc' = [pc EXCEPT ![t] =
                 IF needs_decompression(cluster) THEN "want_write" ELSE "want_blob"]
    /\ UNCHANGED <<overflow_checks, details, parsed, input, built, cluster, writer,
                   poisoned, arg, res, live, calls, decoder_runs, returned, failed>>

\* `if lock.needs_decompression() { drop(lock); ..` and the end of the block
CheckReady(t) ==
    /\ pc[t] = "checking"
    /\ readers' = [readers EXCEPT ![t] = @ - 1]
    /\ pc' = [pc EXCEPT ![t] =
                 IF needs_decompression(cluster) THEN "want_write" ELSE "want_blob"]
    /\ UNCHANGED <<overflow_checks, details, parsed, input, built, cluster, writer,
                   poisoned, arg, res, live, calls, decoder_runs, returned, failed>>

\* `self.0.write().unwrap()`
AcquireWrite(t) ==
    /\ pc[t] = "want_write" /\ writer = NoThread /\ no_readers
    /\ IF poisoned
       THEN /\ Finish(t, arg[t], Panic("PoisonError"))
            /\ UNCHANGED writer
       ELSE /\ writer' = t
            /\ pc' = [pc EXCEPT ![t] = "writing"]
            /\ UNCHANGED <<res, failed>>
    /\ UNCHANGED <<overflow_checks, details, parsed, input, built, cluster, readers,
                   poisoned, arg, live, calls, decoder_runs, returned>>

\* `.decompress()` under the write guard, and the guard's drop
Decompress(t) ==
    /\ pc[t] = "writing" /\ writer = t
    /\ LET r == InnerCluster_decompress(cluster)
       IN  /\ cluster' = r.cluster
           /\ decoder_runs' = decoder_runs + (IF runs_decoder(cluster) THEN 1 ELSE 0)
           /\ poisoned' = (poisoned \/ r.out.tag = "Panic")
           /\ IF r.out.tag = "Ok" /\ arg[t].op = "get_blob"
              THEN /\ pc' = [pc EXCEPT ![t] = "want_blob"]
                   /\ UNCHANGED <<res, failed>>
              ELSE Finish(t, arg[t], r.out)
    /\ writer' = NoThread
    /\ UNCHANGED <<overflow_checks, details, parsed, input, built, readers, arg,
                   live, calls, returned>>

\* a Blob that carries the slice and lets go of the read guard
BuildBlob_drops_guard(t) ==
    /\ pc[t] = "want_blob" /\ writer = NoThread
    /\ LET r == IF poisoned THEN Panic("PoisonError")
                ELSE InnerCluster_get_blob(cluster, arg[t].idx)
       IN  /\ Finish(t, arg[t], r)
           /\ IF r.tag = "Ok"
              THEN /\ live' = [live EXCEPT ![t] = @ + 1]
                   /\ returned' = returned \cup {<<arg[t].idx, r.val>>}
              ELSE UNCHANGED <<live, returned>>
    /\ UNCHANGED <<overflow_checks, details, parsed, input, built, cluster, writer,
                   readers, poisoned, arg, calls, decoder_runs>>

\* BlobTryBuilder { guard: self.0.read().unwrap(), slice_builder: get_blob(idx) }
BuildBlob(t) ==
    /\ pc[t] = "want_blob" /\ writer = NoThread
    /\ LET r == IF poisoned THEN Panic("PoisonError")
                ELSE InnerCluster_get_blob(cluster, arg[t].idx)
       IN  /\ Finish(t, arg[t], r)
           /\ IF r.tag = "Ok"
              THEN /\ readers' = [readers EXCEPT ![t] = @ + 1]
                   /\ live' = [live EXCEPT ![t] = @ + 1]
                   /\ returned' = returned \cup {<<arg[t].idx, r.val>>}
              ELSE UNCHANGED <<readers, live, returned>>
    /\ UNCHANGED <<overflow_checks, details, parsed, input, built, cluster, writer,
                   poisoned, arg, calls, decoder_runs>>

\* the caller drops a Blob, and with it the read guard
DropBlob(t) ==
    /\ live[t] > 0
    /\ live' = [live EXCEPT ![t] = @ - 1]
    /\ readers' = [readers EXCEPT ![t] = @ - 1]
    /\ UNCHANGED <<overflow_checks, details, parsed, input, built, cluster, writer,
                   poisoned, pc, arg, res, calls, decoder_runs, returned, failed>>

\* a thread calls Cluster::decompress()
CallDecompress(t) ==
    /\ pc[t] = "idle" /\ live[t] = 0 /\ calls < MaxCalls
    /\ calls' = calls + 1
    /\ pc' = [pc EXCEPT ![t] = "want_write"]
    /\ arg' = [arg EXCEPT ![t] = [op |-> "decompress", idx |-> 0]]
    /\ res' = [res EXCEPT ![t] = NoResult]
    /\ UNCHANGED <<overflow_checks, details, parsed, input, built, cluster, writer,
                   readers, poisoned, live, decoder_runs, returned, failed>>

\* a thread calls Cluster::compression()
CallCompression(t) ==
    /\ pc[t] = "idle" /\ live[t] = 0 /\ calls < MaxCalls
    /\ calls' = calls + 1
    /\ pc' = [pc EXCEPT ![t] = "want_compression"]
    /\ arg' = [arg EXCEPT ![t] = [op |-> "compression", idx |-> 0]]
    /\ res' = [res EXCEPT ![t] = NoResult]
    /\ UNCHANGED <<overflow_checks, details, parsed, input, built, cluster, writer,
                   readers, poisoned, live, decoder_runs, returned, failed>>

\* `self.0.read().unwrap().compression`
ReadCompression(t) ==
    /\ pc[t] = "want_compression" /\ writer = NoThread
    /\ Finish(t, arg[t], IF poisoned THEN Panic("PoisonError")
                         ELSE Ok(cluster.compression))
    /\ UNCHANGED <<overflow_checks, details, parsed, input, built, cluster, writer,
                   readers, poisoned, arg, live, calls, decoder_runs, returned>>

Next ==
    \E t \in Threads :
        \/ \E idx \in 0..MaxBlobIdx : CallGetBlob(t, idx)
        \/ AcquireCheck(t)
        \/ CheckReady(t)
        \/ AcquireWrite(t)
        \/ Decompress(t)
        \/ BuildBlob(t)
        \/ DropBlob(t)
        \/ CallDecompress(t)
        \/ CallCompression(t)
        \/ ReadCompression(t)

Spec == Init /\ [][Next]_vars

\* The steps of a call that the scheduler and the lock decide, named by the
\* guard and the change of position of the actions above (Next allows no
\* other step with that guard and that change of pc), so that the step's
\* enabling condition is its guard.
Step(t) ==
    \/ /\ pc[t] = "check" /\ writer = NoThread
       /\ \E p \in {"checking", "idle"} : pc' = [pc EXCEPT ![t] = p]
    \/ /\ pc[t] = "checking"
       /\ \E p \in {"want_write", "want_blob"} : pc' = [pc EXCEPT ![t] = p]
    \/ /\ pc[t] = "want_write" /\ writer = NoThread /\ no_readers
       /\ \E p \in {"writing", "idle"} : pc' = [pc EXCEPT ![t] = p]
    \/ /\ pc[t] = "writing" /\ writer = t
       /\ \E p \in {"want_blob", "idle"} : pc' = [pc EXCEPT ![t] = p]
    \/ /\ pc[t] \in {"want_blob", "want_compression"} /\ writer = NoThread
       /\ pc' = [pc EXCEPT ![t] = "idle"]

\* Fair scheduling: a thread in a call that can take its next step, lock
\* acquisition included, eventually takes it. Callers are free never to start
\* another call, and never to drop a Blob they hold.
FairSpec == Init /\ [][Next]_vars /\ \A t \in Threads : WF_pc(Step(t))

\* --------------------------------------------- parse_details on its own

InitDetails ==
    /\ details \in 0..255
    /\ parsed = Pending
    /\ overflow_checks \in BOOLEAN
    /\ input = NoInput
    /\ built = Pending
    /\ cluster = NoCluster
    /\ ThreadsIdle

\* parse_details(&details)
ParseDetails ==
    /\ parsed = Pending
    /\ parsed' = parse_details(details)
    /\ UNCHANGED <<overflow_checks, details, input, built, cluster, writer, readers,
                   poisoned, pc, arg, res, live, calls, decoder_runs, returned, failed>>

NextDetails == ParseDetails

SpecDetails == InitDetails /\ [][NextDetails]_vars

\* ------------------------------------------------- Cluster::new on its own

\* details bytes tried: every scheme code with and without the extended
\* flag, and some with the three reserved bits set
NewDetails == (0..31) \cup {37, 116, 244}

\* what follows the details byte
NewBodies ==
    { PadTo(Table(<<8, 20, 35>>, 4), 42),
      PadTo(Table(<<16, 24>>, 8), 29),
      PadTo(Table(<<2>>, 4), 9),
      PadTo(<<1>>, 13),
      <<8, 0>>,
      <<>> }

\* the cluster that follows the one under construction
NextImage == PadTo(<<5, 1>>, 14)

\* pointer lists and checksum positions over one mapped file: the intact
\* ones and corrupt ones (inverted, empty, past the end, too short)
Layouts(img) ==
    LET a == Archive(<<img, NextImage>>)
        s0 == a.cluster_list[1]
        s1 == a.cluster_list[2]
        past == Len(a.master_view) + 4
    IN  { a,
          [a EXCEPT !.cluster_list = <<s1, s0>>],
          [a EXCEPT !.cluster_list = <<s0, s0>>],
          [a EXCEPT !.cluster_list = <<s0, past>>],
          [a EXCEPT !.checksum_pos = past],
          [a EXCEPT !.cluster_list = <<s0>>],
          [a EXCEPT !.cluster_list = <<>>] }

InitNew ==
    /\ overflow_checks \in BOOLEAN
    /\ \E d \in NewDetails, body \in NewBodies :
         \E a \in Layouts(<<d>> \o body), idx \in 0..MaxClusterIdx,
            version \in {5, ExtendedVersion} :
             input = [master_view |-> a.master_view, cluster_list |-> a.cluster_list,
                      idx |-> idx, checksum_pos |-> a.checksum_pos,
                      version |-> version]
    /\ built = Pending
    /\ cluster = NoCluster
    /\ details = 0
    /\ parsed = Pending
    /\ ThreadsIdle

\* Cluster::new(master_view, cluster_list, idx, checksum_pos, version): the
\* InnerCluster is wrapped in Arc<RwLock<..>> when InnerCluster::new succeeds
New ==
    /\ built = Pending
    /\ built' = InnerCluster_new(input.master_view, input.cluster_list, input.idx,
                                 input.checksum_pos, input.version)
    /\ cluster' = IF built'.tag = "Ok" THEN built'.val ELSE NoCluster
    /\ UNCHANGED <<overflow_checks, details, parsed, input, writer, readers,
                   poisoned, pc, arg, res, live, calls, decoder_runs, returned, failed>>

NextNew == New

SpecNew == InitNew /\ [][NextNew]_vars

\* ------------------------------------------------------------------ claims

Ready == cluster.decompressed.tag = "Some" /\ cluster.blob_list.tag = "Some"

\* a finished get_blob call of thread t that handed out a blob
GotBlob(t) == res[t].op = "get_blob" /\ res[t].out.tag = "Ok"

\* C1 as stated: over any calls by any threads the decoder of a cluster is
\* run at most once.
C1_DecoderRunsAtMostOnce == decoder_runs <= 1

\* C1 as amended: a decoder run that succeeds is the only one. Once the
\* decompressed buffer is stored exactly one decoder run has happened and no
\* later call adds one; only a decode that failed (and stored nothing) is
\* run again by the next caller.
C1_DecodedOnceWhenStored ==
    /\ cluster.decompressed.tag = "Some" => decoder_runs = 1
    /\ decoder_runs > 1 => cluster.decompressed.tag = "None" /\ returned = {}

\* the second of two racing get_blob callers holds the write guard on a
\* cluster the first one has already made Ready
C1_Witness ==
    \E t \in Threads :
        /\ pc[t] = "writing" /\ arg[t].op = "get_blob"
        /\ Ready /\ decoder_runs = 1

\* C2: every blob get_blob has returned for an index is byte-identical to
\* every other blob returned for that index, whatever calls ran in between.
C2_SameIndexSameBytes ==
    \A p \in returned, q \in returned : p[1] = q[1] => p[2] = q[2]

\* two threads have each been handed the same blob of a decompressed cluster
C2_Witness ==
    \E t \in Threads, u \in Threads :
        /\ t # u /\ GotBlob(t) /\ GotBlob(u)
        /\ res[t].idx = res[u].idx /\ res[t].out.val = res[u].out.val
        /\ res[t].out.val # <<>>
        /\ cluster.compression \in Compressed

\* the uncompressed cluster of the scenario: details byte 0x00, a raw view of
\* 43 bytes whose data starts with the 4-byte offsets 8, 20, 35
ScenarioCluster ==
    /\ cluster.compression = "None" /\ ~cluster.extended
    /\ Len(cluster.view) = 43 /\ cluster.size = 43
    /\ cluster.view[1] = 0
    /\ Slice(cluster.view, 1, 13) = Table(<<8, 20, 35>>, 4)

\* the finished get_blob(idx) calls
GetBlobDone(t, idx) == res[t].op = "get_blob" /\ res[t].idx = idx

\* C3 as stated: in the scenario cluster get_blob(0), get_blob(1) and
\* get_blob(2) return the raw bytes [1..9), [9..21) and [21..43).
C3_ScenarioAsStated ==
    ScenarioCluster =>
        \A t \in Threads :
            /\ GetBlobDone(t, 0) => res[t].out = Ok(Slice(cluster.view, 1, 9))
            /\ GetBlobDone(t, 1) => res[t].out = Ok(Slice(cluster.view, 9, 21))
            /\ GetBlobDone(t, 2) => res[t].out = Ok(Slice(cluster.view, 21, 43))

\* C3 as amended: in the scenario cluster the first offset 8 announces a
\* table of two entries, <<8, 20>>; the offsets count from the byte after the
\* details byte, so get_blob(0) returns the raw bytes [9..21); get_blob(1)
\* and get_blob(2) return no blob (the range [21..44) leaves the 43-byte view,
\* and index 2 is outside the table).
C3_ScenarioAsBuilt ==
    ScenarioCluster =>
        /\ cluster.blob_list = Some(<<8, 20>>)
        /\ \A t \in Threads :
            /\ GetBlobDone(t, 0) => res[t].out = Ok(Slice(cluster.view, 9, 21))
            /\ GetBlobDone(t, 1) => res[t].out.tag = "Panic"
            /\ GetBlobDone(t, 2) => res[t].out.tag = "Panic"

\* get_blob(0) and get_blob(1) have both finished on the scenario cluster
C3_Witness ==
    /\ ScenarioCluster
    /\ \E t \in Threads, u \in Threads :
        /\ GetBlobDone(t, 0) /\ res[t].out.tag = "Ok"
        /\ GetBlobDone(u, 1) /\ res[u].out.tag = "Panic"

\* the bytes a cluster's offsets count into: the raw range after the details
\* byte, or the decompressed buffer
ClusterData ==
    IF cluster.compression = "None" THEN Tail(cluster.view)
    ELSE cluster.decompressed.val

\* C4: a blob returned by get_blob(idx) is exactly the bytes
\* [table[idx], end) of the cluster's data, end being table[idx+1] when idx+1
\* is inside the table and the cluster size otherwise; the data is the
\* decompressed buffer for a compressed scheme and the raw range after the
\* details byte for None.
C4_BlobIsTableRange ==
    \A t \in Threads :
        GotBlob(t) =>
            /\ cluster.blob_list.tag = "Some"
            /\ LET table == cluster.blob_list.val
                   idx == res[t].idx
                   end == IF idx + 1 < Len(table) THEN table[idx + 2]
                          ELSE cluster.size
               IN  /\ idx < Len(table)
                   /\ res[t].out.val = SubSeq(ClusterData, table[idx + 1] + 1, end)

\* both ends have been used: a blob that ends at the next table entry, and
\* the last blob of a compressed cluster, which ends at the cluster size
C4_Witness ==
    \E t \in Threads, u \in Threads :
        /\ GotBlob(t) /\ GotBlob(u) /\ res[t].out.val # <<>> /\ res[u].out.val # <<>>
        /\ cluster.compression \in Compressed
        /\ res[t].idx + 1 < Len(cluster.blob_list.val)
        /\ res[u].idx + 1 = Len(cluster.blob_list.val)

RECURSIVE NonDecreasing(_)
NonDecreasing(list) ==
    Len(list) < 2 \/ (list[1] <= list[2] /\ NonDecreasing(Tail(list)))

\* C5 as stated: for an index inside the table (the last one included) of a
\* cluster whose offsets are non-decreasing and inside the data, get_blob
\* succeeds with a slice that lies inside the cluster's data.
C5_EveryTableIndexServed ==
    \A t \in Threads :
        ( /\ res[t].op = "get_blob"
          /\ ~poisoned
          /\ cluster.blob_list.tag = "Some"
          /\ res[t].idx < Len(cluster.blob_list.val)
          /\ NonDecreasing(cluster.blob_list.val)
          /\ \A i \in 1..Len(cluster.blob_list.val) :
                 cluster.blob_list.val[i] <= Len(ClusterData) )
        => /\ res[t].out.tag = "Ok"
           /\ Len(res[t].out.val) <= Len(ClusterData)

\* C10 as stated: get_blob(idx) with idx outside the table fails with an
\* index error returned as a typed result, not a crash.
C10_IndexErrorIsTyped ==
    \A t \in Threads :
        ( /\ res[t].op = "get_blob"
          /\ ~poisoned
          /\ cluster.blob_list.tag = "Some"
          /\ res[t].idx >= Len(cluster.blob_list.val) )
        => res[t].out.tag = "Err"

\* the scheme the format assigns to a 4-bit code below 6
SchemeOfCode(code) ==
    CASE code \in {0, 1} -> "None"
      [] code = 2 -> "Zlib"
      [] code = 3 -> "Bzip2"
      [] code = 4 -> "Lzma2"
      [] code = 5 -> "Zstd"

\* C6: for every byte value the three most significant bits are ignored, the
\* extended flag is the bit of value 0x10 and the scheme comes from the low 4
\* bits (0,1 None; 2 Zlib; 3 Bzip2; 4 Lzma2; 5 Zstd; 6..15 fail with
\* UnknownCompression(code)); 0b000_0_0101 selects Zstd with 4-byte offsets
\* and 0b000_1_0100 selects Lzma2 with 8-byte offsets.
C6_DetailsByteDecoding ==
    parsed.tag # "Pending" =>
        LET code == details % 16
            flag == (details \div 16) % 2 = 1
        IN  /\ code <= 5 =>
                parsed = Ok([extended |-> flag, compression |-> SchemeOfCode(code)])
            /\ code >= 6 => parsed = UnknownCompression(code)
            /\ details = 5 =>
                /\ parsed.val.compression = "Zstd"
                /\ entry_width(parsed.val.extended) = 4
            /\ details = 20 =>
                /\ parsed.val.compression = "Lzma2"
                /\ entry_width(parsed.val.extended) = 8

\* a byte with all three reserved bits set decodes as 0b000_1_0100 does
C6_Witness ==
    /\ details = 244
    /\ parsed = Ok([extended |-> TRUE, compression |-> "Lzma2"])

\* the range Cluster::new is asked to construct, read off its arguments
HasIndex == input.idx < Len(input.cluster_list)
RangeStart == input.cluster_list[input.idx + 1]
RangeEnd ==
    IF input.idx + 1 < Len(input.cluster_list)
    THEN input.cluster_list[input.idx + 2]
    ELSE input.checksum_pos
\* the range is a non-empty part of the mapped file
RangeMapped ==
    HasIndex /\ RangeStart < RangeEnd /\ RangeEnd <= Len(input.master_view)
DetailsByte == input.master_view[RangeStart + 1]
FlagSet == RangeMapped /\ (DetailsByte \div 16) % 2 = 1

\* C7 as stated: a cluster whose details byte has the extended flag set
\* fails with InvalidClusterExtension whenever the major version is not 6
\* and yields no cluster; under version 6 the byte is not rejected.
C7_FlagRejectedBelowSix ==
    (built.tag # "Pending" /\ FlagSet) =>
        IF input.version # 6
        THEN built = Err("InvalidClusterExtension") /\ cluster = NoCluster
        ELSE built # Err("InvalidClusterExtension")

\* C7 as amended: a cluster whose details byte has the extended flag set and
\* a known scheme code (low 4 bits 0..5) fails with InvalidClusterExtension
\* whenever the major version is not 6 and yields no cluster (an unknown code
\* fails with UnknownCompression first); under version 6 no details byte is
\* rejected with InvalidClusterExtension, and a compressed cluster with the
\* flag is constructed with 8-byte offsets.
C7_KnownSchemeFlagRejectedBelowSix ==
    (built.tag # "Pending" /\ FlagSet) =>
        /\ (input.version # 6 /\ DetailsByte % 16 <= 5) =>
               built = Err("InvalidClusterExtension") /\ cluster = NoCluster
        /\ (input.version # 6 /\ DetailsByte % 16 >= 6) =>
               built = UnknownCompression(DetailsByte % 16) /\ cluster = NoCluster
        /\ input.version = 6 =>
               /\ built # Err("InvalidClusterExtension")
               /\ DetailsByte % 16 \in 2..5 =>
                      /\ built.tag = "Ok" /\ cluster.extended
                      /\ cluster.compression = SchemeOfCode(DetailsByte % 16)

\* the flagged Lzma2 byte has been refused under major version 5
C7_Witness ==
    /\ FlagSet /\ DetailsByte = 20 /\ input.version = 5
    /\ built = Err("InvalidClusterExtension")

\* C8: constructing a cluster whose byte range [start, end), end being the
\* next cluster's start or the checksum offset for the last cluster, extends
\* past the mapped region fails with OutOfBounds and yields no cluster.
C8_RangePastMapIsOutOfBounds ==
    ( /\ built.tag # "Pending"
      /\ HasIndex /\ RangeStart < RangeEnd
      /\ RangeEnd > Len(input.master_view) )
    => built = Err("OutOfBounds") /\ cluster = NoCluster

\* the last cluster of the list starts inside the mapped file and the
\* checksum offset that ends it lies past the file: refused
C8_Witness ==
    /\ built = Err("OutOfBounds")
    /\ HasIndex /\ RangeStart < Len(input.master_view)
    /\ RangeEnd > Len(input.master_view)
    /\ input.idx + 1 = Len(input.cluster_list)

\* the first blob offset of an uncompressed cluster, read off the arguments
FirstOffsetTooSmall ==
    /\ RangeMapped
    /\ DetailsByte % 16 \in {0, 1}
    /\ ~((DetailsByte \div 16) % 2 = 1 /\ input.version # 6)
    /\ LET w == IF (DetailsByte \div 16) % 2 = 1 THEN 8 ELSE 4
       IN  /\ RangeEnd - RangeStart > w
           /\ LittleEndian(Slice(input.master_view, RangeStart + 1,
                                 RangeStart + 1 + w)) < w

\* C9 as stated: construction never aborts on corrupt input: an empty or
\* inverted range, a cluster index equal to the number of clusters, and an
\* uncompressed cluster whose first blob offset is smaller than one table
\* entry each produce a typed error.
C9_ConstructionNeverAborts ==
    ( /\ built.tag # "Pending"
      /\ \/ (HasIndex /\ RangeEnd <= RangeStart)
         \/ input.idx = Len(input.cluster_list)
         \/ FirstOffsetTooSmall )
    => built.tag = "Err"

\* C11 as stated: a cluster whose scheme is Zlib or Bzip2 is served like
\* Lzma2 and Zstd: a call on it returns (a blob or a typed error) and never
\* ends in an unimplemented hard failure.
C11_ZlibBzip2Served ==
    cluster.compression \in {"Zlib", "Bzip2"} =>
        \A t \in Threads :
            res[t].op \in {"get_blob", "decompress"} => res[t].out.tag \in {"Ok", "Err"}

\* C12: get_blob never returns MissingBlobList: whenever a call is about to
\* compute the blob range, the blob-offset table exists.
C12_NoMissingBlobList ==
    \A t \in Threads :
        /\ res[t].out # Err("MissingBlobList")
        /\ pc[t] = "want_blob" => cluster.blob_list.tag = "Some"

\* a call that went through the write path of a compressed cluster is about
\* to compute its blob range
C12_Witness ==
    \E t \in Threads :
        /\ pc[t] = "want_blob" /\ cluster.compression \in Compressed
        /\ cluster.blob_list.tag = "Some" /\ decoder_runs = 1 /\ calls = 1

\* C13 as stated: no get_blob call holds the write lock of a cluster that is
\* already Ready. (Decompress makes the cluster Ready and releases the lock
\* in one step, so a holder in a Ready state acquired the lock afterwards.)
C13_NoWriteLockOnceReady ==
    ~(Ready /\ \E t \in Threads : writer = t /\ arg[t].op = "get_blob")

\* C13 as amended: once a compressed cluster is Ready, a get_blob call whose
\* readiness check runs after that goes on to the read path and never asks
\* for the write lock; a call whose readiness check ran before may still
\* acquire the write lock afterwards, and whoever holds it on a Ready
\* cluster leaves the buffer and the table as they are.
C13_ReadyChecksTakeReadPath ==
    [][ /\ \A t \in Threads :
            (Ready /\ pc[t] = "checking" /\ pc'[t] # "checking")
                => pc'[t] = "want_blob"
        /\ Ready => cluster' = cluster ]_vars

\* a readiness check holds its read guard on a Ready cluster while another
\* thread holds a live Blob: two readers side by side
C13_Witness ==
    \E t \in Threads, u \in Threads :
        /\ t # u /\ Ready
        /\ pc[t] = "checking" /\ readers[t] = 1
        /\ live[u] = 1 /\ readers[u] = 1

C14_EveryCallReturnsIfBlobsDropped ==
    (\A u \in Threads : []<>(live[u] = 0))
        => (\A t \in Threads : (pc[t] # "idle") ~> (pc[t] = "idle"))

\* a get_blob call waits for the write lock while another thread holds a
\* live Blob of the cluster
C14_Witness ==
    \E t \in Threads, u \in Threads :
        /\ t # u /\ pc[t] = "want_write" /\ arg[t].op = "get_blob"
        /\ live[u] = 1

\* C15: on a compressed cluster that a reader can observe (no thread holds
\* the write lock, and the lock is not poisoned), the decompressed buffer and
\* the blob-offset table are both absent or both present.
C15_BothOrNeither ==
    (cluster.compression \in Compressed /\ writer = NoThread /\ ~poisoned)
        => (cluster.decompressed.tag = cluster.blob_list.tag)

\* C15 (amended): on a compressed cluster the table is never present without
\* the buffer; the buffer without the table is what a reader finds exactly
\* after the decoder succeeded and the table parse of its output did not.
C15_TableOnlyWithBuffer ==
    cluster.compression \in Compressed =>
        /\ cluster.blob_list.tag = "Some" => cluster.decompressed.tag = "Some"
        /\ (cluster.decompressed.tag = "Some" /\ cluster.blob_list.tag = "None"
            /\ writer = NoThread)
               => parse_blob_list(cluster.decompressed.val, cluster.extended).tag # "Ok"

\* a get_blob call has returned the table parse's error, the lock is not
\* poisoned, and the cluster holds the buffer without the table
C15_Witness ==
    /\ cluster.compression \in Compressed /\ ~poisoned /\ writer = NoThread
    /\ cluster.decompressed.tag = "Some" /\ cluster.blob_list.tag = "None"
    /\ \E t \in Threads : res[t].op = "get_blob" /\ res[t].out.tag = "Err"

\* C16: a get_blob call on a compressed cluster that fails in decompression
\* or in the table parse (the cluster is not Ready when it ends) returns an
\* error and no blob data, and no get_blob on that cluster has data to show.
C16_FailureIsReturnedError ==
    (cluster.compression \in Compressed /\ ~Ready) =>
        /\ returned = {}
        /\ \A t \in Threads :
               (res[t].op = "get_blob" /\ res[t].out.tag # "Pending")
                   => res[t].out.tag = "Err"

\* What holds of the failures that are returned as errors: once a get_blob
\* call has returned one, the cluster is not Ready, no call has produced blob
\* data and every finished get_blob call has failed.
C16_ReturnedErrorSticks ==
    failed =>
        /\ ~Ready /\ returned = {}
        /\ \A t \in Threads :
               (res[t].op = "get_blob" /\ res[t].out.tag # "Pending")
                   => res[t].out.tag = "Err"

\* C17: a cluster with scheme None has its table from construction on, and
\* through every sequence of calls the cluster stays as it was built (the
\* decompressed buffer absent, the table unmodified) and no get_blob call
\* is on the write path.
C17_NoneIsReadyAndFrozen ==
    cluster.compression = "None" =>
        /\ cluster = built.val
        /\ cluster.blob_list.tag = "Some"
        /\ cluster.decompressed.tag = "None"
        /\ \A t \in Threads :
               arg[t].op = "get_blob" => pc[t] \notin {"want_write", "writing"}

\* on a None cluster a decompress call and a get_blob call have both returned
C17_Witness ==
    /\ cluster.compression = "None"
    /\ \E t \in Threads, u \in Threads :
           /\ res[t].op = "decompress" /\ res[t].out.tag = "Ok"
           /\ res[u].op = "get_blob" /\ res[u].out.tag = "Ok"

\* C18: a table the cluster holds, parsed from the raw bytes (None) or from
\* the decompressed bytes, has f \div w entries, f being the first offset and
\* w the entry width (4 bytes, 8 with the extended flag); its first entry is
\* f and entry i is the little-endian value of the i-th group of w bytes of
\* the data.
C18_TableIsTheFirstEntries ==
    cluster.blob_list.tag = "Some" =>
        LET w == IF cluster.extended THEN ExtendedOffsetSize ELSE OffsetSize
            table == cluster.blob_list.val
            f == LittleEndian(SubSeq(ClusterData, 1, w))
        IN  /\ Len(table) = f \div w
            /\ table[1] = f
            /\ \A i \in 1..Len(table) :
                   table[i] = LittleEndian(SubSeq(ClusterData, (i - 1) * w + 1, i * w))

\* a table of two 8-byte entries parsed from decompressed bytes, and a blob
\* served from it
C18_Witness ==
    /\ cluster.extended /\ cluster.compression \in Compressed
    /\ cluster.blob_list.tag = "Some" /\ Len(cluster.blob_list.val) = 2
    /\ \E t \in Threads : GotBlob(t)

\* C19: a call holds no read guard while it asks for the write lock or holds
\* it (the guard of the readiness check is dropped first), and it holds
\* neither lock when it goes on to take the read guard that backs the Blob
\* (the write guard is dropped first).
C19_NoReadGuardOnWritePath ==
    \A t \in Threads :
        /\ pc[t] \in {"want_write", "writing"} => readers[t] = 0
        /\ writer = t => pc[t] = "writing"
        /\ pc[t] = "want_blob" => (writer # t /\ readers[t] = 0)

\* a get_blob call holds the write lock of a cluster that is not Ready, its
\* readiness check behind it
C19_Witness ==
    \E t \in Threads :
        /\ pc[t] = "writing" /\ writer = t /\ arg[t].op = "get_blob"
        /\ readers[t] = 0 /\ ~Ready /\ cluster.compression \in Compressed

\* C20: no thread holds the write lock while a Blob of the cluster is alive;
\* while a Blob is alive the cluster (its buffer and its table) does not
\* change, and a call that asks for the write lock stays waiting.
C20_BlobsExcludeTheWritePath ==
    /\ [](writer # NoThread => \A t \in Threads : live[t] = 0 /\ readers[t] = 0)
    /\ [][(\E t \in Threads : live[t] > 0) =>
              /\ cluster' = cluster
              /\ writer' = NoThread
              /\ \A u \in Threads : pc[u] = "want_write" => pc'[u] = "want_write"]_vars

\* a decompress call waits for the write lock while another thread holds a
\* live Blob
C20_Witness ==
    \E t \in Threads, u \in Threads :
        /\ live[t] > 0 /\ readers[t] > 0
        /\ pc[u] = "want_write" /\ arg[u].op = "decompress"

====
